---- MODULE Spec2Model ----
(***************************************************************************)
(* Model of RobloxResourceManager (src/src/resource_manager.rs): the       *)
(* create / update / delete dispatch over the closed set of resource       *)
(* types, the typed parsing of the untyped input and output documents,     *)
(* and the sequence of platform calls each branch makes.                   *)
(*                                                                         *)
(* The platform (crate::roblox_api::RobloxApi) is not part of the source   *)
(* file; its effect on platform state is modelled from the specification.  *)
(* Every platform call can fail: the outcome of the k-th call of an        *)
(* operation is an input of the operation.                                 *)
(***************************************************************************)
EXTENDS Integers, Sequences, FiniteSets, TLC

VARIABLES platform, last, nops, orphans

vars == <<platform, last, nops, orphans>>

----------------------------------------------------------------------------
(* Bounds                                                                  *)

\* operations performed in one behaviour
MaxOps == 2
\* largest identifier the platform hands out
MaxId == 12

----------------------------------------------------------------------------
(* Untyped documents (serde_yaml::Value): tagged values                    *)

U(n) == [u64 |-> n]
B(b) == [bool |-> b]
S(s) == [str |-> s]
L(s) == [seq |-> s]
Map(f) == [map |-> f]
NullV == [null |-> TRUE]

\* Option<T>
None == [none |-> TRUE]
Some(x) == [some |-> x]
IsSome(o) == DOMAIN o = {"some"}

\* the variant of a value
Is(d, ty) == DOMAIN d = {ty}
IsMap(d) == Is(d, "map")
\* a required field of type ty
Req(d, f, ty) == f \in DOMAIN d.map /\ Is(d.map[f], ty)
\* an Option field: missing, null or of type ty
Opt(d, f, ty) ==
    f \notin DOMAIN d.map \/ Is(d.map[f], ty) \/ Is(d.map[f], "null")
Present(d, f) == f \in DOMAIN d.map /\ ~Is(d.map[f], "null")
\* Option<AssetId>
OptU64(d, f) == IF Present(d, f) THEN Some(d.map[f].u64) ELSE None
\* an Option field of the configuration model, kept as the value given
OptGet(d, f) == IF Present(d, f) THEN Some(d.map[f]) ELSE None

ParseFail == [ok |-> FALSE]
Parsed(r) == [ok |-> TRUE, val |-> r]

----------------------------------------------------------------------------
(* Resource types                                                          *)

EXPERIENCE == "experience"
EXPERIENCE_CONFIGURATION == "experienceConfiguration"
EXPERIENCE_ACTIVATION == "experienceActivation"
EXPERIENCE_ICON == "experienceIcon"
EXPERIENCE_THUMBNAIL == "experienceThumbnail"
EXPERIENCE_THUMBNAIL_ORDER == "experienceThumbnailOrder"
EXPERIENCE_DEVELOPER_PRODUCT == "experienceDeveloperProduct"
EXPERIENCE_DEVELOPER_PRODUCT_ICON == "experienceDeveloperProductIcon"
PLACE == "place"
PLACE_FILE == "placeFile"
PLACE_CONFIGURATION == "placeConfiguration"

DeclaredTypes ==
    { EXPERIENCE, EXPERIENCE_CONFIGURATION, EXPERIENCE_ACTIVATION,
      EXPERIENCE_ICON, EXPERIENCE_THUMBNAIL, EXPERIENCE_THUMBNAIL_ORDER,
      EXPERIENCE_DEVELOPER_PRODUCT, EXPERIENCE_DEVELOPER_PRODUCT_ICON,
      PLACE, PLACE_FILE, PLACE_CONFIGURATION }

----------------------------------------------------------------------------
(* Typed shapes: serde_yaml::from_value::<T> and serde_yaml::to_value      *)

ExperienceConfigurationFields ==
    { "genre", "playableDevices", "isFriendsOnly", "allowPrivateServers",
      "privateServerPrice", "isForSale", "price",
      "studioAccessToApisAllowed", "permissions", "universeAvatarType",
      "universeAnimationType", "universeCollisionType", "isArchived" }

\* every field of the configuration model is optional
ParseExperienceConfigurationModel(d) ==
    IF IsMap(d)
    THEN Parsed([f \in ExperienceConfigurationFields |-> OptGet(d, f)])
    ELSE ParseFail

ParseExperienceInputs(d) ==
    IF IsMap(d) /\ Opt(d, "assetId", "u64")
    THEN Parsed([asset_id |-> OptU64(d, "assetId")])
    ELSE ParseFail

ParseExperienceOutputs(d) ==
    IF IsMap(d) /\ Req(d, "assetId", "u64") /\ Req(d, "startPlaceId", "u64")
    THEN Parsed([asset_id |-> d.map.assetId.u64,
                 start_place_id |-> d.map.startPlaceId.u64])
    ELSE ParseFail

SerExperienceOutputs(o) ==
    Map([assetId |-> U(o.asset_id), startPlaceId |-> U(o.start_place_id)])

ParseExperienceConfigurationInputs(d) ==
    IF /\ IsMap(d) /\ Req(d, "experienceId", "u64")
       /\ Req(d, "configuration", "map")
    THEN Parsed([experience_id |-> d.map.experienceId.u64,
                 configuration |->
                     ParseExperienceConfigurationModel(d.map.configuration).val])
    ELSE ParseFail

ParseExperienceActivationInputs(d) ==
    IF IsMap(d) /\ Req(d, "experienceId", "u64") /\ Req(d, "isActive", "bool")
    THEN Parsed([experience_id |-> d.map.experienceId.u64,
                 is_active |-> d.map.isActive.bool])
    ELSE ParseFail

\* ExperienceThumbnailInputs, ExperienceIconInputs and
\* ExperienceDeveloperProductIconInputs have the same three fields
ParseImageInputs(d) ==
    IF /\ IsMap(d) /\ Req(d, "experienceId", "u64")
       /\ Req(d, "filePath", "str") /\ Req(d, "fileHash", "str")
    THEN Parsed([experience_id |-> d.map.experienceId.u64,
                 file_path |-> d.map.filePath.str,
                 file_hash |-> d.map.fileHash.str])
    ELSE ParseFail

ParseExperienceThumbnailInputs(d) == ParseImageInputs(d)
ParseExperienceIconInputs(d) == ParseImageInputs(d)
ParseExperienceDeveloperProductIconInputs(d) == ParseImageInputs(d)

\* ExperienceThumbnailOutputs, ExperienceIconOutputs,
\* ExperienceDeveloperProductIconOutputs and PlaceOutputs: one asset id
ParseAssetIdOutputs(d) ==
    IF IsMap(d) /\ Req(d, "assetId", "u64")
    THEN Parsed([asset_id |-> d.map.assetId.u64])
    ELSE ParseFail

SerAssetIdOutputs(o) == Map([assetId |-> U(o.asset_id)])

ParseExperienceThumbnailOutputs(d) == ParseAssetIdOutputs(d)
ParsePlaceOutputs(d) == ParseAssetIdOutputs(d)

ParseExperienceThumbnailOrderInputs(d) ==
    IF IsMap(d) /\ Req(d, "experienceId", "u64") /\ Req(d, "assetIds", "seq")
    THEN Parsed([experience_id |-> d.map.experienceId.u64,
                 asset_ids |-> d.map.assetIds.seq])
    ELSE ParseFail

ParseExperienceDeveloperProductInputs(d) ==
    IF /\ IsMap(d) /\ Req(d, "experienceId", "u64") /\ Req(d, "name", "str")
       /\ Req(d, "price", "u64") /\ Req(d, "description", "str")
       /\ Opt(d, "iconAssetId", "u64")
    THEN Parsed([experience_id |-> d.map.experienceId.u64,
                 name |-> d.map.name.str,
                 price |-> d.map.price.u64,
                 description |-> d.map.description.str,
                 icon_asset_id |-> OptU64(d, "iconAssetId")])
    ELSE ParseFail

ParseExperienceDeveloperProductOutputs(d) ==
    IF /\ IsMap(d) /\ Req(d, "assetId", "u64") /\ Req(d, "productId", "u64")
       /\ Req(d, "shopId", "u64")
    THEN Parsed([asset_id |-> d.map.assetId.u64,
                 product_id |-> d.map.productId.u64,
                 shop_id |-> d.map.shopId.u64])
    ELSE ParseFail

SerExperienceDeveloperProductOutputs(o) ==
    Map([assetId |-> U(o.asset_id), productId |-> U(o.product_id),
         shopId |-> U(o.shop_id)])

ParsePlaceInputs(d) ==
    IF /\ IsMap(d) /\ Req(d, "experienceId", "u64")
       /\ Req(d, "startPlaceId", "u64") /\ Opt(d, "assetId", "u64")
       /\ Req(d, "isStart", "bool")
    THEN Parsed([experience_id |-> d.map.experienceId.u64,
                 start_place_id |-> d.map.startPlaceId.u64,
                 asset_id |-> OptU64(d, "assetId"),
                 is_start |-> d.map.isStart.bool])
    ELSE ParseFail

ParsePlaceFileInputs(d) ==
    IF /\ IsMap(d) /\ Req(d, "assetId", "u64")
       /\ Req(d, "filePath", "str") /\ Req(d, "fileHash", "str")
    THEN Parsed([asset_id |-> d.map.assetId.u64,
                 file_path |-> d.map.filePath.str,
                 file_hash |-> d.map.fileHash.str])
    ELSE ParseFail

SerPlaceFileOutputs(o) == Map([version |-> U(o.version)])

\* PlaceConfigurationModel is declared outside the source file: any
\* mapping is taken as a configuration
ParsePlaceConfigurationInputs(d) ==
    IF IsMap(d) /\ Req(d, "assetId", "u64") /\ Req(d, "configuration", "map")
    THEN Parsed([asset_id |-> d.map.assetId.u64,
                 configuration |-> d.map.configuration])
    ELSE ParseFail

----------------------------------------------------------------------------
(* The platform behind RobloxApi.  State: the experiences, places, images  *)
(* and developer products of the account, and the next identifier the      *)
(* platform will assign.  A call fails when its outcome input says so or   *)
(* when the entity it addresses does not exist; a failed call leaves the   *)
(* platform unchanged.                                                     *)

\* the table f with the entry k |-> v added
Put(f, k, v) == [q \in DOMAIN f \cup {k} |-> IF q = k THEN v ELSE f[q]]

Fail(pf) == [ok |-> FALSE, pf |-> pf]
Done(pf, ret) == [ok |-> TRUE, ret |-> ret, pf |-> pf]

\* the platform records the configuration fields that were ever set
DefaultConfiguration == [isArchived |-> B(FALSE)]

NewExperience(root) ==
    [rootPlaceId |-> root, isActive |-> FALSE,
     configuration |-> DefaultConfiguration, thumbnailOrder |-> <<>>]

NewPlace(exp) ==
    [experienceId |-> exp, currentSavedVersion |-> 0,
     file |-> <<>>, configuration |-> NullV]

get_experience(pf, ok, asset_id) ==
    IF ok /\ asset_id \in DOMAIN pf.experiences
    THEN Done(pf, [root_place_id |-> pf.experiences[asset_id].rootPlaceId])
    ELSE Fail(pf)

create_experience(pf, ok) ==
    IF ok
    THEN LET u == pf.nextId
             r == pf.nextId + 1
         IN Done([pf EXCEPT !.nextId = @ + 2,
                            !.experiences = Put(@, u, NewExperience(r)),
                            !.places = Put(@, r, NewPlace(u))],
                 [universe_id |-> u, root_place_id |-> r])
    ELSE Fail(pf)

\* the configuration is a sparse overlay: unset fields are left alone
configure_experience(pf, ok, experience_id, model) ==
    IF ok /\ experience_id \in DOMAIN pf.experiences
    THEN Done([pf EXCEPT !.experiences[experience_id].configuration =
                  [f \in DOMAIN @ \cup
                       {g \in ExperienceConfigurationFields : IsSome(model[g])}
                    |-> IF IsSome(model[f]) THEN model[f].some ELSE @[f]]],
              NullV)
    ELSE Fail(pf)

set_experience_active(pf, ok, experience_id, is_active) ==
    IF ok /\ experience_id \in DOMAIN pf.experiences
    THEN Done([pf EXCEPT !.experiences[experience_id].isActive = is_active],
              NullV)
    ELSE Fail(pf)

UploadImage(pf, ok, kind, experience_id, path) ==
    IF ok /\ experience_id \in DOMAIN pf.experiences
    THEN Done([pf EXCEPT !.nextId = @ + 1,
                         !.images = @ \cup
                             {[id |-> pf.nextId, kind |-> kind,
                               experienceId |-> experience_id,
                               path |-> path]}],
              [target_id |-> pf.nextId])
    ELSE Fail(pf)

upload_icon(pf, ok, experience_id, path) ==
    UploadImage(pf, ok, "icon", experience_id, path)

upload_thumbnail(pf, ok, experience_id, path) ==
    UploadImage(pf, ok, "thumbnail", experience_id, path)

create_experience_developer_product_icon(pf, ok, experience_id, path) ==
    UploadImage(pf, ok, "productIcon", experience_id, path)

delete_experience_thumbnail(pf, ok, experience_id, asset_id) ==
    IF ok /\ experience_id \in DOMAIN pf.experiences
    THEN Done([pf EXCEPT !.images =
                  {i \in @ : ~(i.kind = "thumbnail" /\ i.id = asset_id
                               /\ i.experienceId = experience_id)}],
              NullV)
    ELSE Fail(pf)

set_experience_thumbnail_order(pf, ok, experience_id, asset_ids) ==
    IF ok /\ experience_id \in DOMAIN pf.experiences
    THEN Done([pf EXCEPT !.experiences[experience_id].thumbnailOrder =
                  asset_ids], NullV)
    ELSE Fail(pf)

\* the creation call returns the developer-product id and the shop id; the
\* product id that later updates need is a third identifier
create_experience_developer_product(pf, ok, experience_id, name, price, description, icon_asset_id) ==
    IF ok /\ experience_id \in DOMAIN pf.experiences
    THEN Done([pf EXCEPT !.nextId = @ + 3,
                         !.products =
                             Put(@, pf.nextId + 2,
                                 [developerProductId |-> pf.nextId,
                                  shopId |-> pf.nextId + 1,
                                  experienceId |-> experience_id,
                                  name |-> name, price |-> price,
                                  description |-> description,
                                  iconAssetId |-> icon_asset_id])],
              [id |-> pf.nextId, shop_id |-> pf.nextId + 1])
    ELSE Fail(pf)

find_experience_developer_product_by_id(pf, ok, experience_id, id) ==
    LET found == {p \in DOMAIN pf.products :
                      /\ pf.products[p].developerProductId = id
                      /\ pf.products[p].experienceId = experience_id}
    IN IF ok /\ found # {}
       THEN LET p == CHOOSE q \in found : TRUE
            IN Done(pf, [product_id |-> p, developer_product_id |-> id])
       ELSE Fail(pf)

update_experience_developer_product(pf, ok, experience_id, asset_id, name, price, description, icon_asset_id) ==
    IF /\ ok /\ asset_id \in DOMAIN pf.products
       /\ pf.products[asset_id].experienceId = experience_id
    THEN Done([pf EXCEPT !.products[asset_id].name = name,
                         !.products[asset_id].price = price,
                         !.products[asset_id].description = description,
                         !.products[asset_id].iconAssetId = icon_asset_id],
              NullV)
    ELSE Fail(pf)

create_place(pf, ok, experience_id) ==
    IF ok /\ experience_id \in DOMAIN pf.experiences
    THEN Done([pf EXCEPT !.nextId = @ + 1,
                         !.places =
                             Put(@, pf.nextId, NewPlace(experience_id))],
              [place_id |-> pf.nextId])
    ELSE Fail(pf)

upload_place(pf, ok, path, asset_id) ==
    IF ok /\ asset_id \in DOMAIN pf.places
    THEN Done([pf EXCEPT !.places[asset_id].currentSavedVersion = @ + 1,
                         !.places[asset_id].file = path], NullV)
    ELSE Fail(pf)

get_place(pf, ok, asset_id) ==
    IF ok /\ asset_id \in DOMAIN pf.places
    THEN Done(pf, [current_saved_version |->
                       pf.places[asset_id].currentSavedVersion])
    ELSE Fail(pf)

configure_place(pf, ok, asset_id, configuration) ==
    IF ok /\ asset_id \in DOMAIN pf.places
    THEN Done([pf EXCEPT !.places[asset_id].configuration = configuration],
              NullV)
    ELSE Fail(pf)

\* the place leaves the experience; the platform keeps no orphan record
remove_place_from_experience(pf, ok, experience_id, place_id) ==
    IF /\ ok /\ place_id \in DOMAIN pf.places
       /\ pf.places[place_id].experienceId = experience_id
    THEN Done([pf EXCEPT !.places =
                  [q \in DOMAIN @ \ {place_id} |-> @[q]]], NullV)
    ELSE Fail(pf)

----------------------------------------------------------------------------
(* Results of an operation, and the record of the platform calls it made   *)

OkSome(d) == [kind |-> "ok", out |-> Some(d), msg |-> ""]
OkNone == [kind |-> "ok", out |-> None, msg |-> ""]
Err(m) == [kind |-> "err", out |-> None, msg |-> m]
Panic(m) == [kind |-> "panic", out |-> None, msg |-> m]

DeserializeInputs == "Failed to deserialize inputs"
DeserializeOutputs == "Failed to deserialize outputs"
PlatformError == "platform error"
StartPlaceGuidance ==
    "Cannot delete the start place of an experience. Try creating a new experience instead."

Ret(result, calls, pf) == [result |-> result, calls |-> calls, pf |-> pf]
Call(api, args, ok) == [api |-> api, args |-> args, ok |-> ok]

\* Paths are sequences of components; an absolute path starts with "/"
project_path == <<"/", "project">>
Join(base, path) ==
    IF path # <<>> /\ path[1] = "/" THEN path ELSE base \o path

----------------------------------------------------------------------------
(* RobloxResourceManager::create, one definition per match arm.  oks[k] is *)
(* the outcome of the k-th platform call of the operation.                 *)

\* create_EXPERIENCE with the asset id of the inputs ignored
create_EXPERIENCE_NeverAdopts(pf, oks, resource_inputs) ==
    LET p == ParseExperienceInputs(resource_inputs) IN
    IF ~p.ok THEN Ret(Err(DeserializeInputs), <<>>, pf)
    ELSE LET r == create_experience(pf, oks[1])
             c == <<Call("create_experience", <<>>, r.ok)>>
         IN IF ~r.ok THEN Ret(Err(PlatformError), c, r.pf)
            ELSE Ret(OkSome(SerExperienceOutputs(
                         [asset_id |-> r.ret.universe_id,
                          start_place_id |-> r.ret.root_place_id])),
                     c, r.pf)

create_EXPERIENCE(pf, oks, resource_inputs) ==
    LET p == ParseExperienceInputs(resource_inputs) IN
    IF ~p.ok THEN Ret(Err(DeserializeInputs), <<>>, pf)
    ELSE LET inputs == p.val IN
         IF IsSome(inputs.asset_id)
         THEN LET asset_id == inputs.asset_id.some
                  r == get_experience(pf, oks[1], asset_id)
                  c == <<Call("get_experience", <<asset_id>>, r.ok)>>
              IN IF ~r.ok THEN Ret(Err(PlatformError), c, r.pf)
                 ELSE Ret(OkSome(SerExperienceOutputs(
                              [asset_id |-> asset_id,
                               start_place_id |-> r.ret.root_place_id])),
                          c, r.pf)
         ELSE LET r == create_experience(pf, oks[1])
                  c == <<Call("create_experience", <<>>, r.ok)>>
              IN IF ~r.ok THEN Ret(Err(PlatformError), c, r.pf)
                 ELSE Ret(OkSome(SerExperienceOutputs(
                              [asset_id |-> r.ret.universe_id,
                               start_place_id |-> r.ret.root_place_id])),
                          c, r.pf)

create_EXPERIENCE_CONFIGURATION(pf, oks, resource_inputs) ==
    LET p == ParseExperienceConfigurationInputs(resource_inputs) IN
    IF ~p.ok THEN Ret(Err(DeserializeInputs), <<>>, pf)
    ELSE LET inputs == p.val
             r == configure_experience(pf, oks[1], inputs.experience_id,
                                       inputs.configuration)
             c == <<Call("configure_experience",
                         <<inputs.experience_id, inputs.configuration>>,
                         r.ok)>>
         IN IF ~r.ok THEN Ret(Err(PlatformError), c, r.pf)
            ELSE Ret(OkNone, c, r.pf)

\* create_EXPERIENCE_ACTIVATION returning the inputs as outputs
create_EXPERIENCE_ACTIVATION_EchoesInputs(pf, oks, resource_inputs) ==
    LET p == ParseExperienceActivationInputs(resource_inputs) IN
    IF ~p.ok THEN Ret(Err(DeserializeInputs), <<>>, pf)
    ELSE LET inputs == p.val
             r == set_experience_active(pf, oks[1], inputs.experience_id,
                                        inputs.is_active)
             c == <<Call("set_experience_active",
                         <<inputs.experience_id, inputs.is_active>>, r.ok)>>
         IN IF ~r.ok THEN Ret(Err(PlatformError), c, r.pf)
            ELSE Ret(OkSome(resource_inputs), c, r.pf)

create_EXPERIENCE_ACTIVATION(pf, oks, resource_inputs) ==
    LET p == ParseExperienceActivationInputs(resource_inputs) IN
    IF ~p.ok THEN Ret(Err(DeserializeInputs), <<>>, pf)
    ELSE LET inputs == p.val
             r == set_experience_active(pf, oks[1], inputs.experience_id,
                                        inputs.is_active)
             c == <<Call("set_experience_active",
                         <<inputs.experience_id, inputs.is_active>>, r.ok)>>
         IN IF ~r.ok THEN Ret(Err(PlatformError), c, r.pf)
            ELSE Ret(OkNone, c, r.pf)

create_EXPERIENCE_ICON(pf, oks, resource_inputs) ==
    LET p == ParseExperienceIconInputs(resource_inputs) IN
    IF ~p.ok THEN Ret(Err(DeserializeInputs), <<>>, pf)
    ELSE LET inputs == p.val
             path == Join(project_path, inputs.file_path)
             r == upload_icon(pf, oks[1], inputs.experience_id, path)
             c == <<Call("upload_icon", <<inputs.experience_id, path>>,
                         r.ok)>>
         IN IF ~r.ok THEN Ret(Err(PlatformError), c, r.pf)
            ELSE Ret(OkSome(SerAssetIdOutputs(
                         [asset_id |-> r.ret.target_id])), c, r.pf)

create_EXPERIENCE_THUMBNAIL(pf, oks, resource_inputs) ==
    LET p == ParseExperienceThumbnailInputs(resource_inputs) IN
    IF ~p.ok THEN Ret(Err(DeserializeInputs), <<>>, pf)
    ELSE LET inputs == p.val
             path == Join(project_path, inputs.file_path)
             r == upload_thumbnail(pf, oks[1], inputs.experience_id, path)
             c == <<Call("upload_thumbnail", <<inputs.experience_id, path>>,
                         r.ok)>>
         IN IF ~r.ok THEN Ret(Err(PlatformError), c, r.pf)
            ELSE Ret(OkSome(SerAssetIdOutputs(
                         [asset_id |-> r.ret.target_id])), c, r.pf)

create_EXPERIENCE_THUMBNAIL_ORDER(pf, oks, resource_inputs) ==
    LET p == ParseExperienceThumbnailOrderInputs(resource_inputs) IN
    IF ~p.ok THEN Ret(Err(DeserializeInputs), <<>>, pf)
    ELSE LET inputs == p.val
             r == set_experience_thumbnail_order(
                      pf, oks[1], inputs.experience_id, inputs.asset_ids)
             c == <<Call("set_experience_thumbnail_order",
                         <<inputs.experience_id, inputs.asset_ids>>, r.ok)>>
         IN IF ~r.ok THEN Ret(Err(PlatformError), c, r.pf)
            ELSE Ret(OkNone, c, r.pf)

create_EXPERIENCE_DEVELOPER_PRODUCT_ICON(pf, oks, resource_inputs) ==
    LET p == ParseExperienceDeveloperProductIconInputs(resource_inputs) IN
    IF ~p.ok THEN Ret(Err(DeserializeInputs), <<>>, pf)
    ELSE LET inputs == p.val
             path == Join(project_path, inputs.file_path)
             r == create_experience_developer_product_icon(
                      pf, oks[1], inputs.experience_id, path)
             c == <<Call("create_experience_developer_product_icon",
                         <<inputs.experience_id, path>>, r.ok)>>
         IN IF ~r.ok THEN Ret(Err(PlatformError), c, r.pf)
            ELSE Ret(OkSome(SerAssetIdOutputs(
                         [asset_id |-> r.ret.target_id])), c, r.pf)

\* create_EXPERIENCE_DEVELOPER_PRODUCT as a transaction: a failed re-fetch
\* leaves the platform as it was before the creation call
create_EXPERIENCE_DEVELOPER_PRODUCT_RollsBack(pf, oks, resource_inputs) ==
    LET p == ParseExperienceDeveloperProductInputs(resource_inputs) IN
    IF ~p.ok THEN Ret(Err(DeserializeInputs), <<>>, pf)
    ELSE LET inputs == p.val
             r1 == create_experience_developer_product(
                       pf, oks[1], inputs.experience_id, inputs.name,
                       inputs.price, inputs.description, inputs.icon_asset_id)
             c1 == <<Call("create_experience_developer_product",
                          <<inputs.experience_id, inputs.name, inputs.price,
                            inputs.description, inputs.icon_asset_id>>,
                          r1.ok)>>
         IN IF ~r1.ok THEN Ret(Err(PlatformError), c1, r1.pf)
            ELSE LET id == r1.ret.id
                     r2 == find_experience_developer_product_by_id(
                               r1.pf, oks[2], inputs.experience_id, id)
                     c2 == c1 \o
                           <<Call("find_experience_developer_product_by_id",
                                  <<inputs.experience_id, id>>, r2.ok)>>
                 IN IF ~r2.ok THEN Ret(Err(PlatformError), c2, pf)
                    ELSE Ret(OkSome(SerExperienceDeveloperProductOutputs(
                                 [asset_id |-> r2.ret.product_id,
                                  product_id |-> id,
                                  shop_id |-> r1.ret.shop_id])),
                             c2, r2.pf)

\* create_EXPERIENCE_DEVELOPER_PRODUCT recording the two identifiers the
\* other way round
create_EXPERIENCE_DEVELOPER_PRODUCT_SwapsIds(pf, oks, resource_inputs) ==
    LET p == ParseExperienceDeveloperProductInputs(resource_inputs) IN
    IF ~p.ok THEN Ret(Err(DeserializeInputs), <<>>, pf)
    ELSE LET inputs == p.val
             r1 == create_experience_developer_product(
                       pf, oks[1], inputs.experience_id, inputs.name,
                       inputs.price, inputs.description, inputs.icon_asset_id)
             c1 == <<Call("create_experience_developer_product",
                          <<inputs.experience_id, inputs.name, inputs.price,
                            inputs.description, inputs.icon_asset_id>>,
                          r1.ok)>>
         IN IF ~r1.ok THEN Ret(Err(PlatformError), c1, r1.pf)
            ELSE LET id == r1.ret.id
                     r2 == find_experience_developer_product_by_id(
                               r1.pf, oks[2], inputs.experience_id, id)
                     c2 == c1 \o
                           <<Call("find_experience_developer_product_by_id",
                                  <<inputs.experience_id, id>>, r2.ok)>>
                 IN IF ~r2.ok THEN Ret(Err(PlatformError), c2, r2.pf)
                    ELSE Ret(OkSome(SerExperienceDeveloperProductOutputs(
                                 [asset_id |-> id,
                                  product_id |-> r2.ret.product_id,
                                  shop_id |-> r1.ret.shop_id])),
                             c2, r2.pf)

\* create_EXPERIENCE_DEVELOPER_PRODUCT that adopts a product of the same
\* name already on the platform instead of creating another
create_EXPERIENCE_DEVELOPER_PRODUCT_AdoptsByName(pf, oks, resource_inputs) ==
    LET p == ParseExperienceDeveloperProductInputs(resource_inputs) IN
    IF ~p.ok THEN Ret(Err(DeserializeInputs), <<>>, pf)
    ELSE LET inputs == p.val
             same == {q \in DOMAIN pf.products :
                          /\ pf.products[q].experienceId = inputs.experience_id
                          /\ pf.products[q].name = inputs.name}
             r1 == create_experience_developer_product(
                       pf, oks[1], inputs.experience_id, inputs.name,
                       inputs.price, inputs.description, inputs.icon_asset_id)
             c1 == <<Call("create_experience_developer_product",
                          <<inputs.experience_id, inputs.name, inputs.price,
                            inputs.description, inputs.icon_asset_id>>,
                          r1.ok)>>
         IN IF same # {}
            THEN LET q == CHOOSE x \in same : TRUE
                 IN Ret(OkSome(SerExperienceDeveloperProductOutputs(
                            [asset_id |-> q,
                             product_id |-> pf.products[q].developerProductId,
                             shop_id |-> pf.products[q].shopId])), <<>>, pf)
            ELSE IF ~r1.ok THEN Ret(Err(PlatformError), c1, r1.pf)
            ELSE LET id == r1.ret.id
                     r2 == find_experience_developer_product_by_id(
                               r1.pf, oks[2], inputs.experience_id, id)
                     c2 == c1 \o
                           <<Call("find_experience_developer_product_by_id",
                                  <<inputs.experience_id, id>>, r2.ok)>>
                 IN IF ~r2.ok THEN Ret(Err(PlatformError), c2, r2.pf)
                    ELSE Ret(OkSome(SerExperienceDeveloperProductOutputs(
                                 [asset_id |-> r2.ret.product_id,
                                  product_id |-> id,
                                  shop_id |-> r1.ret.shop_id])),
                             c2, r2.pf)

create_EXPERIENCE_DEVELOPER_PRODUCT(pf, oks, resource_inputs) ==
    LET p == ParseExperienceDeveloperProductInputs(resource_inputs) IN
    IF ~p.ok THEN Ret(Err(DeserializeInputs), <<>>, pf)
    ELSE LET inputs == p.val
             r1 == create_experience_developer_product(
                       pf, oks[1], inputs.experience_id, inputs.name,
                       inputs.price, inputs.description, inputs.icon_asset_id)
             c1 == <<Call("create_experience_developer_product",
                          <<inputs.experience_id, inputs.name, inputs.price,
                            inputs.description, inputs.icon_asset_id>>,
                          r1.ok)>>
         IN IF ~r1.ok THEN Ret(Err(PlatformError), c1, r1.pf)
            ELSE LET id == r1.ret.id
                     r2 == find_experience_developer_product_by_id(
                               r1.pf, oks[2], inputs.experience_id, id)
                     c2 == c1 \o
                           <<Call("find_experience_developer_product_by_id",
                                  <<inputs.experience_id, id>>, r2.ok)>>
                 IN IF ~r2.ok THEN Ret(Err(PlatformError), c2, r2.pf)
                    ELSE Ret(OkSome(SerExperienceDeveloperProductOutputs(
                                 [asset_id |-> r2.ret.product_id,
                                  product_id |-> id,
                                  shop_id |-> r1.ret.shop_id])),
                             c2, r2.pf)

\* create_PLACE with is_start ignored: a place is created whenever the
\* inputs carry no asset id
create_PLACE_IgnoresIsStart(pf, oks, resource_inputs) ==
    LET p == ParsePlaceInputs(resource_inputs) IN
    IF ~p.ok THEN Ret(Err(DeserializeInputs), <<>>, pf)
    ELSE LET inputs == p.val IN
         IF IsSome(inputs.asset_id)
         THEN Ret(OkSome(SerAssetIdOutputs(
                      [asset_id |-> inputs.asset_id.some])), <<>>, pf)
         ELSE LET r == create_place(pf, oks[1], inputs.experience_id)
                  c == <<Call("create_place", <<inputs.experience_id>>,
                              r.ok)>>
              IN IF ~r.ok THEN Ret(Err(PlatformError), c, r.pf)
                 ELSE Ret(OkSome(SerAssetIdOutputs(
                              [asset_id |-> r.ret.place_id])), c, r.pf)

create_PLACE(pf, oks, resource_inputs) ==
    LET p == ParsePlaceInputs(resource_inputs) IN
    IF ~p.ok THEN Ret(Err(DeserializeInputs), <<>>, pf)
    ELSE LET inputs == p.val IN
         CASE ~inputs.is_start /\ ~IsSome(inputs.asset_id) ->
                LET r == create_place(pf, oks[1], inputs.experience_id)
                    c == <<Call("create_place", <<inputs.experience_id>>,
                                r.ok)>>
                IN IF ~r.ok THEN Ret(Err(PlatformError), c, r.pf)
                   ELSE Ret(OkSome(SerAssetIdOutputs(
                                [asset_id |-> r.ret.place_id])), c, r.pf)
           [] inputs.is_start /\ ~IsSome(inputs.asset_id) ->
                Ret(OkSome(SerAssetIdOutputs(
                        [asset_id |-> inputs.start_place_id])), <<>>, pf)
           [] IsSome(inputs.asset_id) ->
                Ret(OkSome(SerAssetIdOutputs(
                        [asset_id |-> inputs.asset_id.some])), <<>>, pf)

\* create_PLACE_FILE reading the saved version before the upload
create_PLACE_FILE_GetsFirst(pf, oks, resource_inputs) ==
    LET p == ParsePlaceFileInputs(resource_inputs) IN
    IF ~p.ok THEN Ret(Err(DeserializeInputs), <<>>, pf)
    ELSE LET inputs == p.val
             path == Join(project_path, inputs.file_path)
             r1 == get_place(pf, oks[1], inputs.asset_id)
             c1 == <<Call("get_place", <<inputs.asset_id>>, r1.ok)>>
         IN IF ~r1.ok THEN Ret(Err(PlatformError), c1, r1.pf)
            ELSE LET r2 == upload_place(r1.pf, oks[2], path, inputs.asset_id)
                     c2 == c1 \o <<Call("upload_place",
                                        <<path, inputs.asset_id>>, r2.ok)>>
                 IN IF ~r2.ok THEN Ret(Err(PlatformError), c2, r2.pf)
                    ELSE Ret(OkSome(SerPlaceFileOutputs(
                                 [version |-> r1.ret.current_saved_version])),
                             c2, r2.pf)

create_PLACE_FILE(pf, oks, resource_inputs) ==
    LET p == ParsePlaceFileInputs(resource_inputs) IN
    IF ~p.ok THEN Ret(Err(DeserializeInputs), <<>>, pf)
    ELSE LET inputs == p.val
             path == Join(project_path, inputs.file_path)
             r1 == upload_place(pf, oks[1], path, inputs.asset_id)
             c1 == <<Call("upload_place", <<path, inputs.asset_id>>, r1.ok)>>
         IN IF ~r1.ok THEN Ret(Err(PlatformError), c1, r1.pf)
            ELSE LET r2 == get_place(r1.pf, oks[2], inputs.asset_id)
                     c2 == c1 \o <<Call("get_place", <<inputs.asset_id>>,
                                        r2.ok)>>
                 IN IF ~r2.ok THEN Ret(Err(PlatformError), c2, r2.pf)
                    ELSE Ret(OkSome(SerPlaceFileOutputs(
                                 [version |-> r2.ret.current_saved_version])),
                             c2, r2.pf)

create_PLACE_CONFIGURATION(pf, oks, resource_inputs) ==
    LET p == ParsePlaceConfigurationInputs(resource_inputs) IN
    IF ~p.ok THEN Ret(Err(DeserializeInputs), <<>>, pf)
    ELSE LET inputs == p.val
             r == configure_place(pf, oks[1], inputs.asset_id,
                                  inputs.configuration)
             c == <<Call("configure_place",
                         <<inputs.asset_id, inputs.configuration>>, r.ok)>>
         IN IF ~r.ok THEN Ret(Err(PlatformError), c, r.pf)
            ELSE Ret(OkNone, c, r.pf)

create(pf, oks, resource_type, resource_inputs) ==
    CASE resource_type = EXPERIENCE ->
            create_EXPERIENCE(pf, oks, resource_inputs)
      [] resource_type = EXPERIENCE_CONFIGURATION ->
            create_EXPERIENCE_CONFIGURATION(pf, oks, resource_inputs)
      [] resource_type = EXPERIENCE_ACTIVATION ->
            create_EXPERIENCE_ACTIVATION(pf, oks, resource_inputs)
      [] resource_type = EXPERIENCE_ICON ->
            create_EXPERIENCE_ICON(pf, oks, resource_inputs)
      [] resource_type = EXPERIENCE_THUMBNAIL ->
            create_EXPERIENCE_THUMBNAIL(pf, oks, resource_inputs)
      [] resource_type = EXPERIENCE_THUMBNAIL_ORDER ->
            create_EXPERIENCE_THUMBNAIL_ORDER(pf, oks, resource_inputs)
      [] resource_type = EXPERIENCE_DEVELOPER_PRODUCT_ICON ->
            create_EXPERIENCE_DEVELOPER_PRODUCT_ICON(pf, oks, resource_inputs)
      [] resource_type = EXPERIENCE_DEVELOPER_PRODUCT ->
            create_EXPERIENCE_DEVELOPER_PRODUCT(pf, oks, resource_inputs)
      [] resource_type = PLACE ->
            create_PLACE(pf, oks, resource_inputs)
      [] resource_type = PLACE_FILE ->
            create_PLACE_FILE(pf, oks, resource_inputs)
      [] resource_type = PLACE_CONFIGURATION ->
            create_PLACE_CONFIGURATION(pf, oks, resource_inputs)
      [] OTHER ->
            Ret(Panic("Create not implemented for resource type"), <<>>, pf)

----------------------------------------------------------------------------
(* RobloxResourceManager::delete.  utc is the reading of the clock.        *)

\* utc.format("%F %T%.f"): date, a space, time of day, fractional seconds
FormatUtc(utc) == <<utc.date, " ", utc.time, utc.frac>>

DeprecatedName(utc) == <<"zzz_DEPRECATED(">> \o FormatUtc(utc) \o <<")">>

\* DeprecatedDescription with the original description left out
DeprecatedDescription_NameOnly(name, description) == <<"Name: ">> \o name

DeprecatedDescription(name, description) ==
    <<"Name: ">> \o name \o <<"\nDescription:\n">> \o description

\* ArchiveConfiguration that also takes the experience off sale
ArchiveConfiguration_DisablesSale ==
    [f \in ExperienceConfigurationFields |->
        CASE f = "isArchived" -> Some(B(TRUE))
          [] f = "isForSale" -> Some(B(FALSE))
          [] OTHER -> None]

\* the configuration pushed to archive an experience
ArchiveConfiguration ==
    [f \in ExperienceConfigurationFields |->
        IF f = "isArchived" THEN Some(B(TRUE)) ELSE None]

delete_EXPERIENCE(pf, oks, resource_outputs) ==
    LET p == ParseExperienceOutputs(resource_outputs) IN
    IF ~p.ok THEN Ret(Err(DeserializeOutputs), <<>>, pf)
    ELSE LET outputs == p.val
             r == configure_experience(pf, oks[1], outputs.asset_id,
                                       ArchiveConfiguration)
             c == <<Call("configure_experience",
                         <<outputs.asset_id, ArchiveConfiguration>>, r.ok)>>
         IN IF ~r.ok THEN Ret(Err(PlatformError), c, r.pf)
            ELSE Ret(OkNone, c, r.pf)

delete_EXPERIENCE_THUMBNAIL(pf, oks, resource_inputs, resource_outputs) ==
    LET pi == ParseExperienceThumbnailInputs(resource_inputs)
        po == ParseExperienceThumbnailOutputs(resource_outputs)
    IN CASE ~pi.ok -> Ret(Err(DeserializeInputs), <<>>, pf)
         [] pi.ok /\ ~po.ok -> Ret(Err(DeserializeOutputs), <<>>, pf)
         [] OTHER ->
              LET inputs == pi.val
                  outputs == po.val
                  r == delete_experience_thumbnail(
                           pf, oks[1], inputs.experience_id, outputs.asset_id)
                  c == <<Call("delete_experience_thumbnail",
                              <<inputs.experience_id, outputs.asset_id>>,
                              r.ok)>>
              IN IF ~r.ok THEN Ret(Err(PlatformError), c, r.pf)
                 ELSE Ret(OkNone, c, r.pf)

delete_EXPERIENCE_DEVELOPER_PRODUCT(pf, oks, utc, resource_inputs, resource_outputs) ==
    LET pi == ParseExperienceDeveloperProductInputs(resource_inputs)
        po == ParseExperienceDeveloperProductOutputs(resource_outputs)
    IN CASE ~pi.ok -> Ret(Err(DeserializeInputs), <<>>, pf)
         [] pi.ok /\ ~po.ok -> Ret(Err(DeserializeOutputs), <<>>, pf)
         [] OTHER ->
              LET inputs == pi.val
                  outputs == po.val
                  name == DeprecatedName(utc)
                  description ==
                      DeprecatedDescription(inputs.name, inputs.description)
                  r == update_experience_developer_product(
                           pf, oks[1], inputs.experience_id, outputs.asset_id,
                           name, inputs.price, description,
                           inputs.icon_asset_id)
                  c == <<Call("update_experience_developer_product",
                              <<inputs.experience_id, outputs.asset_id, name,
                                inputs.price, description,
                                inputs.icon_asset_id>>, r.ok)>>
              IN IF ~r.ok THEN Ret(Err(PlatformError), c, r.pf)
                 ELSE Ret(OkNone, c, r.pf)

\* delete_PLACE without the start-place guard
delete_PLACE_Unguarded(pf, oks, resource_inputs, resource_outputs) ==
    LET pi == ParsePlaceInputs(resource_inputs)
        po == ParsePlaceOutputs(resource_outputs)
    IN CASE ~pi.ok -> Ret(Err(DeserializeInputs), <<>>, pf)
         [] pi.ok /\ ~po.ok -> Ret(Err(DeserializeOutputs), <<>>, pf)
         [] OTHER ->
              LET inputs == pi.val
                  outputs == po.val
                  r == remove_place_from_experience(
                           pf, oks[1], inputs.experience_id, outputs.asset_id)
                  c == <<Call("remove_place_from_experience",
                              <<inputs.experience_id, outputs.asset_id>>,
                              r.ok)>>
              IN IF ~r.ok THEN Ret(Err(PlatformError), c, r.pf)
                 ELSE Ret(OkNone, c, r.pf)

delete_PLACE(pf, oks, resource_inputs, resource_outputs) ==
    LET pi == ParsePlaceInputs(resource_inputs)
        po == ParsePlaceOutputs(resource_outputs)
    IN CASE ~pi.ok -> Ret(Err(DeserializeInputs), <<>>, pf)
         [] pi.ok /\ ~po.ok -> Ret(Err(DeserializeOutputs), <<>>, pf)
         [] OTHER ->
              LET inputs == pi.val
                  outputs == po.val
              IN IF inputs.is_start
                 THEN Ret(Err(StartPlaceGuidance), <<>>, pf)
                 ELSE LET r == remove_place_from_experience(
                                   pf, oks[1], inputs.experience_id,
                                   outputs.asset_id)
                          c == <<Call("remove_place_from_experience",
                                      <<inputs.experience_id,
                                        outputs.asset_id>>, r.ok)>>
                      IN IF ~r.ok THEN Ret(Err(PlatformError), c, r.pf)
                         ELSE Ret(OkNone, c, r.pf)

\* delete with unknown resource types treated as nothing to tear down
delete_UnknownIsNoOp(pf, oks, utc, resource_type, resource_inputs, resource_outputs) ==
    CASE resource_type = EXPERIENCE ->
            delete_EXPERIENCE(pf, oks, resource_outputs)
      [] resource_type = EXPERIENCE_THUMBNAIL ->
            delete_EXPERIENCE_THUMBNAIL(pf, oks, resource_inputs,
                                        resource_outputs)
      [] resource_type = EXPERIENCE_DEVELOPER_PRODUCT ->
            delete_EXPERIENCE_DEVELOPER_PRODUCT(pf, oks, utc, resource_inputs,
                                                resource_outputs)
      [] resource_type = PLACE ->
            delete_PLACE(pf, oks, resource_inputs, resource_outputs)
      [] resource_type = EXPERIENCE_ACTIVATION ->
            Ret(Panic("Delete not implemented for resource type"), <<>>, pf)
      [] OTHER -> Ret(OkNone, <<>>, pf)

\* delete whose PLACE_FILE arm deserializes the inputs before returning, as
\* the PLACE_FILE arm of create does
delete_PlaceFileParsesInputs(pf, oks, utc, resource_type, resource_inputs, resource_outputs) ==
    CASE resource_type = EXPERIENCE ->
            delete_EXPERIENCE(pf, oks, resource_outputs)
      [] resource_type = EXPERIENCE_THUMBNAIL ->
            delete_EXPERIENCE_THUMBNAIL(pf, oks, resource_inputs,
                                        resource_outputs)
      [] resource_type = EXPERIENCE_DEVELOPER_PRODUCT ->
            delete_EXPERIENCE_DEVELOPER_PRODUCT(pf, oks, utc, resource_inputs,
                                                resource_outputs)
      [] resource_type = PLACE ->
            delete_PLACE(pf, oks, resource_inputs, resource_outputs)
      [] resource_type = PLACE_FILE ->
            IF ParsePlaceFileInputs(resource_inputs).ok
            THEN Ret(OkNone, <<>>, pf)
            ELSE Ret(Err(DeserializeInputs), <<>>, pf)
      [] resource_type \in
            {EXPERIENCE_CONFIGURATION, EXPERIENCE_ICON,
             EXPERIENCE_THUMBNAIL_ORDER, EXPERIENCE_DEVELOPER_PRODUCT_ICON,
             PLACE_CONFIGURATION} -> Ret(OkNone, <<>>, pf)
      [] OTHER ->
            Ret(Panic("Delete not implemented for resource type"), <<>>, pf)

\* there is no arm for EXPERIENCE_ACTIVATION
delete(pf, oks, utc, resource_type, resource_inputs, resource_outputs) ==
    CASE resource_type = EXPERIENCE ->
            delete_EXPERIENCE(pf, oks, resource_outputs)
      [] resource_type = EXPERIENCE_CONFIGURATION -> Ret(OkNone, <<>>, pf)
      [] resource_type = EXPERIENCE_ICON -> Ret(OkNone, <<>>, pf)
      [] resource_type = EXPERIENCE_THUMBNAIL ->
            delete_EXPERIENCE_THUMBNAIL(pf, oks, resource_inputs,
                                        resource_outputs)
      [] resource_type = EXPERIENCE_THUMBNAIL_ORDER -> Ret(OkNone, <<>>, pf)
      [] resource_type = EXPERIENCE_DEVELOPER_PRODUCT_ICON ->
            Ret(OkNone, <<>>, pf)
      [] resource_type = EXPERIENCE_DEVELOPER_PRODUCT ->
            delete_EXPERIENCE_DEVELOPER_PRODUCT(pf, oks, utc, resource_inputs,
                                                resource_outputs)
      [] resource_type = PLACE ->
            delete_PLACE(pf, oks, resource_inputs, resource_outputs)
      [] resource_type = PLACE_FILE -> Ret(OkNone, <<>>, pf)
      [] resource_type = PLACE_CONFIGURATION -> Ret(OkNone, <<>>, pf)
      [] OTHER ->
            Ret(Panic("Delete not implemented for resource type"), <<>>, pf)

----------------------------------------------------------------------------
(* RobloxResourceManager::update                                           *)

\* update_EXPERIENCE_THUMBNAIL in the other order: the new image is
\* uploaded before the old one is deleted
update_EXPERIENCE_THUMBNAIL_CreateFirst(pf, oks, utc, resource_inputs, resource_outputs) ==
    LET c == create(pf, oks, EXPERIENCE_THUMBNAIL, resource_inputs)
    IN IF c.result.kind # "ok" THEN c
       ELSE LET rest == SubSeq(oks, Len(c.calls) + 1, Len(oks))
                d == delete(c.pf, rest, utc, EXPERIENCE_THUMBNAIL,
                            resource_inputs, resource_outputs)
            IN IF d.result.kind # "ok"
               THEN Ret(d.result, c.calls \o d.calls, d.pf)
               ELSE Ret(c.result, c.calls \o d.calls, d.pf)

\* update_EXPERIENCE_THUMBNAIL that uploads even when the platform refused
\* to delete the old image
update_EXPERIENCE_THUMBNAIL_UploadsRegardless(pf, oks, utc, resource_inputs, resource_outputs) ==
    LET d == delete(pf, oks, utc, EXPERIENCE_THUMBNAIL, resource_inputs,
                    resource_outputs)
    IN IF d.calls = <<>> THEN d
       ELSE LET rest == SubSeq(oks, Len(d.calls) + 1, Len(oks))
                c == create(d.pf, rest, EXPERIENCE_THUMBNAIL, resource_inputs)
            IN Ret(c.result, d.calls \o c.calls, c.pf)

update_EXPERIENCE_THUMBNAIL(pf, oks, utc, resource_inputs, resource_outputs) ==
    LET d == delete(pf, oks, utc, EXPERIENCE_THUMBNAIL, resource_inputs,
                    resource_outputs)
    IN IF d.result.kind # "ok" THEN d
       ELSE LET rest == SubSeq(oks, Len(d.calls) + 1, Len(oks))
                c == create(d.pf, rest, EXPERIENCE_THUMBNAIL, resource_inputs)
            IN Ret(c.result, d.calls \o c.calls, c.pf)

\* update_EXPERIENCE_DEVELOPER_PRODUCT addressing the product by the
\* creation id of the outputs instead of their asset id
update_EXPERIENCE_DEVELOPER_PRODUCT_ByProductId(pf, oks, resource_inputs, resource_outputs) ==
    LET pi == ParseExperienceDeveloperProductInputs(resource_inputs)
        po == ParseExperienceDeveloperProductOutputs(resource_outputs)
    IN CASE ~pi.ok -> Ret(Err(DeserializeInputs), <<>>, pf)
         [] pi.ok /\ ~po.ok -> Ret(Err(DeserializeOutputs), <<>>, pf)
         [] OTHER ->
              LET inputs == pi.val
                  outputs == po.val
                  r == update_experience_developer_product(
                           pf, oks[1], inputs.experience_id,
                           outputs.product_id, inputs.name, inputs.price,
                           inputs.description, inputs.icon_asset_id)
                  c == <<Call("update_experience_developer_product",
                              <<inputs.experience_id, outputs.product_id,
                                inputs.name, inputs.price, inputs.description,
                                inputs.icon_asset_id>>, r.ok)>>
              IN IF ~r.ok THEN Ret(Err(PlatformError), c, r.pf)
                 ELSE Ret(OkSome(resource_outputs), c, r.pf)

update_EXPERIENCE_DEVELOPER_PRODUCT(pf, oks, resource_inputs, resource_outputs) ==
    LET pi == ParseExperienceDeveloperProductInputs(resource_inputs)
        po == ParseExperienceDeveloperProductOutputs(resource_outputs)
    IN CASE ~pi.ok -> Ret(Err(DeserializeInputs), <<>>, pf)
         [] pi.ok /\ ~po.ok -> Ret(Err(DeserializeOutputs), <<>>, pf)
         [] OTHER ->
              LET inputs == pi.val
                  outputs == po.val
                  r == update_experience_developer_product(
                           pf, oks[1], inputs.experience_id, outputs.asset_id,
                           inputs.name, inputs.price, inputs.description,
                           inputs.icon_asset_id)
                  c == <<Call("update_experience_developer_product",
                              <<inputs.experience_id, outputs.asset_id,
                                inputs.name, inputs.price, inputs.description,
                                inputs.icon_asset_id>>, r.ok)>>
              IN IF ~r.ok THEN Ret(Err(PlatformError), c, r.pf)
                 ELSE Ret(OkSome(resource_outputs), c, r.pf)

\* update that deserializes the prior outputs of a place before it
\* re-creates it
update_PlaceReadsOutputs(pf, oks, utc, resource_type, resource_inputs, resource_outputs) ==
    CASE resource_type = PLACE /\ ~ParsePlaceOutputs(resource_outputs).ok ->
            Ret(Err(DeserializeOutputs), <<>>, pf)
      [] resource_type \in
             { EXPERIENCE, EXPERIENCE_CONFIGURATION, EXPERIENCE_ACTIVATION,
               EXPERIENCE_ICON, EXPERIENCE_THUMBNAIL_ORDER, PLACE, PLACE_FILE,
               PLACE_CONFIGURATION, EXPERIENCE_DEVELOPER_PRODUCT_ICON } ->
            create(pf, oks, resource_type, resource_inputs)
      [] resource_type = EXPERIENCE_THUMBNAIL ->
            update_EXPERIENCE_THUMBNAIL(pf, oks, utc, resource_inputs,
                                        resource_outputs)
      [] resource_type = EXPERIENCE_DEVELOPER_PRODUCT ->
            update_EXPERIENCE_DEVELOPER_PRODUCT(pf, oks, resource_inputs,
                                                resource_outputs)
      [] OTHER ->
            Ret(Panic("Update not implemented for resource type"), <<>>, pf)

update(pf, oks, utc, resource_type, resource_inputs, resource_outputs) ==
    CASE resource_type \in
             { EXPERIENCE, EXPERIENCE_CONFIGURATION, EXPERIENCE_ACTIVATION,
               EXPERIENCE_ICON, EXPERIENCE_THUMBNAIL_ORDER, PLACE, PLACE_FILE,
               PLACE_CONFIGURATION, EXPERIENCE_DEVELOPER_PRODUCT_ICON } ->
            create(pf, oks, resource_type, resource_inputs)
      [] resource_type = EXPERIENCE_THUMBNAIL ->
            update_EXPERIENCE_THUMBNAIL(pf, oks, utc, resource_inputs,
                                        resource_outputs)
      [] resource_type = EXPERIENCE_DEVELOPER_PRODUCT ->
            update_EXPERIENCE_DEVELOPER_PRODUCT(pf, oks, resource_inputs,
                                                resource_outputs)
      [] OTHER ->
            Ret(Panic("Update not implemented for resource type"), <<>>, pf)

----------------------------------------------------------------------------
(* The caller: documents handed to the operations                          *)

Str(tokens) == S(tokens)

\* a document that is not a mapping parses into no shape
Malformed == NullV
\* a mapping whose identifiers are strings parses into no shape either
WrongTypes ==
    Map([experienceId |-> Str(<<"one">>), assetId |-> Str(<<"two">>)])
MalformedDocs == {Malformed, WrongTypes}

ImageInputs(file) ==
    Map([experienceId |-> U(1), filePath |-> Str(<<file>>),
         fileHash |-> Str(<<"hash">>)])

PlaceIn(is_start, asset_id) ==
    Map([experienceId |-> U(1), startPlaceId |-> U(2),
         assetId |-> asset_id, isStart |-> B(is_start)])

ProductIn(name, price, description, icon) ==
    Map([experienceId |-> U(1), name |-> Str(name), price |-> U(price),
         description |-> Str(description), iconAssetId |-> icon])

InputsOf(resource_type) ==
    CASE resource_type = EXPERIENCE ->
            { Map([assetId |-> NullV]), Map([assetId |-> U(1)]) }
      [] resource_type = EXPERIENCE_CONFIGURATION ->
            { Map([experienceId |-> U(1),
                   configuration |-> Map([genre |-> Str(<<"All">>),
                                          isForSale |-> B(TRUE)])]) }
      [] resource_type = EXPERIENCE_ACTIVATION ->
            { Map([experienceId |-> U(1), isActive |-> B(TRUE)]) }
      [] resource_type = EXPERIENCE_ICON -> { ImageInputs("icon.png") }
      [] resource_type = EXPERIENCE_THUMBNAIL -> { ImageInputs("thumb.png") }
      [] resource_type = EXPERIENCE_THUMBNAIL_ORDER ->
            { Map([experienceId |-> U(1), assetIds |-> L(<<3>>)]) }
      [] resource_type = EXPERIENCE_DEVELOPER_PRODUCT_ICON ->
            { ImageInputs("product.png") }
      [] resource_type = EXPERIENCE_DEVELOPER_PRODUCT ->
            { ProductIn(<<"Gem">>, 10, <<"Shiny">>, NullV),
              ProductIn(<<"Coin">>, 25, <<"Gold", " coin">>, U(3)) }
      [] resource_type = PLACE ->
            { PlaceIn(s, a) : s \in BOOLEAN, a \in {NullV, U(2), U(8)} }
      [] resource_type = PLACE_FILE ->
            { Map([assetId |-> U(2), filePath |-> Str(<<"start.rbxl">>),
                   fileHash |-> Str(<<"hash">>)]) }
      [] resource_type = PLACE_CONFIGURATION ->
            { Map([assetId |-> U(2),
                   configuration |-> Map([name |-> Str(<<"Lobby">>)])]) }
      [] OTHER -> {}

\* recorded outputs the caller may hold for a resource of the type
OutputsOf(resource_type) ==
    CASE resource_type = EXPERIENCE ->
            { Map([assetId |-> U(1), startPlaceId |-> U(2)]) }
      [] resource_type = EXPERIENCE_THUMBNAIL -> { Map([assetId |-> U(3)]) }
      [] resource_type = EXPERIENCE_DEVELOPER_PRODUCT ->
            { Map([assetId |-> U(6), productId |-> U(4), shopId |-> U(5)]),
              Map([assetId |-> U(6), productId |-> U(4), shopId |-> U(5),
                   note |-> Str(<<"kept">>)]) }
      [] resource_type = PLACE -> { Map([assetId |-> U(2)]) }
      [] OTHER -> {}

UnknownType == "experienceBadge"
\* strings outside the declared set: an unregistered kind, and a declared
\* kind in another spelling
UnknownTypes == {UnknownType, "Experience"}
ResourceTypes == DeclaredTypes \cup UnknownTypes

Clock ==
    { [date |-> "2022-03-04", time |-> "05:06:07", frac |-> ".000008"],
      [date |-> "2022-03-04", time |-> "05:06:07", frac |-> ".000009"] }

\* no operation makes more than two platform calls: the outcomes of the
\* first and of the second
Outcomes == BOOLEAN \X BOOLEAN

\* the operations that make a second platform call
MakesTwoCalls(op, resource_type) ==
    \/ op = "create" /\ resource_type \in
           {EXPERIENCE_DEVELOPER_PRODUCT, PLACE_FILE}
    \/ op = "update" /\ resource_type \in {EXPERIENCE_THUMBNAIL, PLACE_FILE}

\* the operations whose arm holds no platform call at all: the panic arms
\* and the delete arms that return Ok(()) at once
MakesNoCall(op, resource_type) ==
    \/ resource_type \notin DeclaredTypes
    \/ op = "delete" /\ resource_type \in
           {EXPERIENCE_CONFIGURATION, EXPERIENCE_ACTIVATION, EXPERIENCE_ICON,
            EXPERIENCE_THUMBNAIL_ORDER, EXPERIENCE_DEVELOPER_PRODUCT_ICON,
            PLACE_FILE, PLACE_CONFIGURATION}

\* the outcomes an operation can observe
OutcomesOf(op, resource_type) ==
    {oks \in Outcomes :
        /\ MakesTwoCalls(op, resource_type) \/ oks[2]
        /\ ~MakesNoCall(op, resource_type) \/ oks[1]}

\* the document the caller records for a result: the outputs, or null
OutputsDoc(result) == IF IsSome(result.out) THEN result.out.some ELSE NullV

----------------------------------------------------------------------------
(* State machine                                                           *)

EmptyPlatform ==
    [nextId |-> 1, experiences |-> [q \in {} |-> 0],
     places |-> [q \in {} |-> 0], images |-> {},
     products |-> [q \in {} |-> 0]]

AllOk == <<TRUE, TRUE>>

\* an account on which an experience (1, start place 2), a thumbnail (3)
\* and a developer product (6; creation id 4, shop id 5) were deployed
DeployedPlatform ==
    LET e == create(EmptyPlatform, AllOk, EXPERIENCE,
                    Map([assetId |-> NullV])).pf
        t == create(e, AllOk, EXPERIENCE_THUMBNAIL, ImageInputs("old.png")).pf
    IN create(t, AllOk, EXPERIENCE_DEVELOPER_PRODUCT,
              ProductIn(<<"Gem">>, 10, <<"Shiny">>, NullV)).pf

NoUtc == [date |-> "", time |-> "", frac |-> ""]

\* only the developer-product arm of delete reads the clock
ClockRead(resource_type) ==
    IF resource_type = EXPERIENCE_DEVELOPER_PRODUCT THEN Clock ELSE {NoUtc}

Init ==
    /\ platform = DeployedPlatform
    /\ last = [op |-> "none", resource_type |-> "", inputs |-> NullV,
               outputs |-> NullV, utc |-> NoUtc, result |-> OkNone,
               calls |-> <<>>, before |-> DeployedPlatform]
    /\ nops = 0
    /\ orphans = {}

CanRun == nops < MaxOps /\ last.result.kind # "panic"

\* history: the developer products a create left on the platform although
\* it returned an error, each with the inputs of that create
Orphaned(op, resource_type, inputs, r) ==
    IF /\ op = "create" /\ resource_type = EXPERIENCE_DEVELOPER_PRODUCT
       /\ r.result.kind = "err"
    THEN {[id |-> q, inputs |-> inputs] :
              q \in DOMAIN r.pf.products \ DOMAIN platform.products}
    ELSE {}

Record(op, resource_type, inputs, outputs, utc, r) ==
    /\ r.pf.nextId <= MaxId + 1
    /\ platform' = r.pf
    /\ last' = [op |-> op, resource_type |-> resource_type,
                inputs |-> inputs, outputs |-> outputs, utc |-> utc,
                result |-> r.result, calls |-> r.calls, before |-> platform]
    /\ nops' = nops + 1
    /\ orphans' = orphans \cup Orphaned(op, resource_type, inputs, r)

\* what the caller may pass as prior outputs: a recorded document of the
\* type, a document of no shape, or what the previous operation returned
PriorOutputs(resource_type) ==
    OutputsOf(resource_type) \cup {WrongTypes, OutputsDoc(last.result)}

Create ==
    /\ CanRun
    /\ \E resource_type \in ResourceTypes :
       \E inputs \in InputsOf(resource_type) \cup MalformedDocs :
       \E oks \in OutcomesOf("create", resource_type) :
       \E r \in {create(platform, oks, resource_type, inputs)} :
          Record("create", resource_type, inputs, NullV, NoUtc, r)

Update ==
    /\ CanRun
    /\ \E resource_type \in ResourceTypes :
       \E inputs \in InputsOf(resource_type) \cup MalformedDocs :
       \E outputs \in PriorOutputs(resource_type) :
       \E oks \in OutcomesOf("update", resource_type) :
       \E r \in {update(platform, oks, NoUtc,
                      resource_type, inputs, outputs)} :
          Record("update", resource_type, inputs, outputs, NoUtc, r)

Delete ==
    /\ CanRun
    /\ \E resource_type \in ResourceTypes :
       \E inputs \in InputsOf(resource_type) \cup MalformedDocs :
       \E outputs \in PriorOutputs(resource_type) :
       \E oks \in OutcomesOf("delete", resource_type) :
       \E utc \in ClockRead(resource_type) :
       \E r \in {delete(platform, oks, utc,
                      resource_type, inputs, outputs)} :
          Record("delete", resource_type, inputs, outputs, utc, r)

Next == Create \/ Update \/ Delete

Spec == Init /\ [][Next]_vars

TypeOK ==
    /\ nops \in 0..MaxOps
    /\ last.op \in {"none", "create", "update", "delete"}
    /\ last.result.kind \in {"ok", "err", "panic"}
    /\ platform.nextId \in 1..(MaxId + 1)
    /\ \A o \in orphans : o.id \in DOMAIN platform.products

----------------------------------------------------------------------------
(* Helpers for the properties                                              *)

CallsTo(api) == {k \in 1..Len(last.calls) : last.calls[k].api = api}

AllCallsOk(calls) == \A k \in 1..Len(calls) : calls[k].ok

\* needle occurs in hay as a contiguous run
Contains(hay, needle) ==
    \E i \in 0..(Len(hay) - Len(needle)) :
        SubSeq(hay, i + 1, i + Len(needle)) = needle

\* the identifiers that exist on the platform
Resources(pf) ==
    [experiences |-> DOMAIN pf.experiences, places |-> DOMAIN pf.places,
     images |-> {i.id : i \in pf.images}, products |-> DOMAIN pf.products]

IsStartIn(d) == IsMap(d) /\ Req(d, "isStart", "bool") /\ d.map.isStart.bool

----------------------------------------------------------------------------
(* C1 *)

CreateDeleteTypes ==
    { EXPERIENCE, EXPERIENCE_CONFIGURATION, EXPERIENCE_ACTIVATION,
      PLACE_CONFIGURATION, PLACE_FILE, EXPERIENCE_DEVELOPER_PRODUCT_ICON,
      EXPERIENCE_THUMBNAIL_ORDER }

\* a successful create is followed at once by delete with the same inputs
\* and the outputs create returned, and every platform call of the delete
\* succeeds
DeleteAfterCreate ==
    /\ last.op = "create" /\ last.result.kind = "ok"
    /\ last.resource_type \in CreateDeleteTypes
    /\ last'.op = "delete"
    /\ last'.resource_type = last.resource_type
    /\ last'.inputs = last.inputs
    /\ last'.outputs = OutputsDoc(last.result)
    /\ AllCallsOk(last'.calls)

\* C1: for experience, experience-configuration, experience-activation,
\* place-configuration, place-file, experience-developer-product-icon and
\* experience-thumbnail-order, delete called right after a successful
\* create, with the same inputs and the returned outputs, raises no error
\* (neither a returned error nor a fatal defect) when the platform calls
\* succeed.
C1_DeleteAfterCreateSucceeds ==
    [][DeleteAfterCreate => last'.result.kind = "ok"]_vars

----------------------------------------------------------------------------
(* C2 *)

DeleteStartPlace ==
    /\ last.op = "delete" /\ last.resource_type = PLACE
    /\ IsStartIn(last.inputs) /\ ParsePlaceInputs(last.inputs).ok

\* C2 as stated: delete of a place whose inputs have is_start = true fails
\* with the start-place guidance error for every outputs document, also one
\* that does not parse as place outputs, and makes no
\* remove-place-from-experience call.
C2_AlwaysGuidance ==
    DeleteStartPlace =>
        /\ last.result = Err(StartPlaceGuidance)
        /\ CallsTo("remove_place_from_experience") = {}

\* C2 amended: delete of a place whose inputs have is_start = true always
\* returns an error and makes no platform call; the error is the start-place
\* guidance whenever the outputs document has a u64 assetId, and the
\* outputs deserialization error otherwise.
C2_GuidanceWhenOutputsParse ==
    DeleteStartPlace =>
        /\ last.calls = <<>>
        /\ platform = last.before
        /\ last.result =
              IF IsMap(last.outputs) /\ Req(last.outputs, "assetId", "u64")
              THEN Err(StartPlaceGuidance)
              ELSE Err(DeserializeOutputs)

C2_Witness ==
    /\ DeleteStartPlace
    /\ last.outputs = Map([assetId |-> U(2)])
    /\ last.result = Err(StartPlaceGuidance)

----------------------------------------------------------------------------
(* C3 *)

StartPlaces(pf) ==
    {pf.experiences[e].rootPlaceId : e \in DOMAIN pf.experiences}

\* C3: no operation issues create-place to produce the start place of an
\* experience, and none issues remove-place-from-experience with the place
\* id that is the start place of that experience, whatever is_start says.
C3_StartPlaceNeverCreatedOrRemoved ==
    /\ \A k \in CallsTo("create_place") :
          last.calls[k].ok =>
              (DOMAIN platform.places \ DOMAIN last.before.places)
                  \cap StartPlaces(platform) = {}
    /\ \A k \in CallsTo("remove_place_from_experience") :
          LET experience_id == last.calls[k].args[1]
              place_id == last.calls[k].args[2]
          IN experience_id \in DOMAIN last.before.experiences =>
                 last.before.experiences[experience_id].rootPlaceId
                     # place_id

----------------------------------------------------------------------------
(* C4 *)

UpdateFailedOnPlatform ==
    /\ last.op = "update" /\ last.result.kind = "err"
    /\ ~AllCallsOk(last.calls)

\* the platform as the same update leaves it when every call succeeds
FullyUpdated ==
    update(last.before, AllOk, last.utc, last.resource_type, last.inputs,
           last.outputs).pf

\* C4: when update returns an error because a platform call failed, the
\* platform is either as it was before the update or as the completed
\* update leaves it, never in between.
C4_UpdateNeverMixed ==
    UpdateFailedOnPlatform =>
        platform = last.before \/ platform = FullyUpdated

----------------------------------------------------------------------------
(* C5 *)

RecreateTypes ==
    { EXPERIENCE, EXPERIENCE_CONFIGURATION, EXPERIENCE_ACTIVATION,
      EXPERIENCE_ICON, EXPERIENCE_THUMBNAIL_ORDER, PLACE, PLACE_FILE,
      PLACE_CONFIGURATION, EXPERIENCE_DEVELOPER_PRODUCT_ICON }

\* a successful update is applied again with the same inputs and the
\* outputs the first one returned, and succeeds again
UpdateAgain ==
    /\ last.op = "update" /\ last.result.kind = "ok"
    /\ last.resource_type \in RecreateTypes
    /\ last'.op = "update" /\ last'.result.kind = "ok"
    /\ last'.resource_type = last.resource_type
    /\ last'.inputs = last.inputs
    /\ last'.outputs = OutputsDoc(last.result)

\* C5: for the types whose update is create, applying update a second time
\* with the same inputs leaves the same set of resources on the platform
\* and returns the same outputs as applying it once.
C5_UpdateIdempotent ==
    [][UpdateAgain =>
          /\ Resources(platform') = Resources(platform)
          /\ last'.result = last.result]_vars

----------------------------------------------------------------------------
(* C6 *)

CreateExperience ==
    /\ last.op = "create" /\ last.resource_type = EXPERIENCE
    /\ IsMap(last.inputs) /\ Opt(last.inputs, "assetId", "u64")

AdoptsExperience ==
    /\ CreateExperience
    /\ "assetId" \in DOMAIN last.inputs.map
    /\ Is(last.inputs.map.assetId, "u64")

CreatedExperiences ==
    DOMAIN platform.experiences \ DOMAIN last.before.experiences

\* C6: create of an experience with asset_id = Some(X) never calls
\* create-experience; it makes exactly one get-experience call for X and on
\* success returns asset id X with the root place id the platform holds for
\* X as start-place id.  With asset_id = None it calls create-experience
\* once and returns the universe id and root place id the platform assigned.
C6_ExperienceAdoptOrCreate ==
    /\ AdoptsExperience =>
          LET X == last.inputs.map.assetId.u64 IN
          /\ CallsTo("create_experience") = {}
          /\ Len(last.calls) = 1
          /\ last.calls[1].api = "get_experience"
          /\ last.calls[1].args = <<X>>
          /\ CreatedExperiences = {}
          /\ last.result.kind = "ok" =>
                last.result.out =
                    Some(Map([assetId |-> U(X),
                              startPlaceId |->
                                  U(last.before.experiences[X].rootPlaceId)]))
    /\ CreateExperience /\ ~AdoptsExperience =>
          /\ Len(last.calls) = 1
          /\ last.calls[1].api = "create_experience"
          /\ last.result.kind = "ok" =>
                \E u \in CreatedExperiences :
                    /\ CreatedExperiences = {u}
                    /\ last.result.out =
                           Some(Map([assetId |-> U(u),
                                     startPlaceId |->
                                         U(platform.experiences[u]
                                               .rootPlaceId)]))

C6_Witness ==
    /\ AdoptsExperience
    /\ last.result.kind = "ok"
    /\ last.calls[1].ok

----------------------------------------------------------------------------
(* C7 *)

UpdateProduct ==
    last.op = "update" /\ last.resource_type = EXPERIENCE_DEVELOPER_PRODUCT

ProductDocsParse ==
    /\ ParseExperienceDeveloperProductInputs(last.inputs).ok
    /\ ParseExperienceDeveloperProductOutputs(last.outputs).ok

IconOf(d) ==
    IF "iconAssetId" \in DOMAIN d.map /\ Is(d.map.iconAssetId, "u64")
    THEN Some(d.map.iconAssetId.u64) ELSE None

\* C7: update of a developer product never calls create-developer-product;
\* given documents of the right shape it calls update-product exactly once,
\* with the asset id of the prior outputs and the name, price, description
\* and icon id of the new inputs, and on success returns the prior outputs
\* document unchanged.
C7_ProductUpdatedInPlace ==
    UpdateProduct =>
        /\ CallsTo("create_experience_developer_product") = {}
        /\ DOMAIN platform.products = DOMAIN last.before.products
        /\ ProductDocsParse =>
              /\ Len(last.calls) = 1
              /\ last.calls[1].api = "update_experience_developer_product"
              /\ last.calls[1].args =
                     << last.inputs.map.experienceId.u64,
                        last.outputs.map.assetId.u64,
                        last.inputs.map.name.str,
                        last.inputs.map.price.u64,
                        last.inputs.map.description.str,
                        IconOf(last.inputs) >>
        /\ last.result.kind = "ok" =>
              last.result.out = Some(last.outputs)

C7_Witness ==
    /\ UpdateProduct
    /\ last.result.kind = "ok"
    /\ "note" \in DOMAIN last.outputs.map
    /\ last.inputs.map.name.str = <<"Coin">>
    /\ platform.products[6].name = <<"Coin">>

----------------------------------------------------------------------------
(* C8 *)

DeleteProduct ==
    /\ last.op = "delete"
    /\ last.resource_type = EXPERIENCE_DEVELOPER_PRODUCT
    /\ ProductDocsParse

\* C8: delete of a developer product removes nothing; it issues exactly one
\* update-product call on the asset id of the outputs, with a name that
\* begins with zzz_DEPRECATED( and contains the timestamp, a description
\* that contains the name and the description of the inputs verbatim, and
\* the price and icon id of the inputs; the product still exists afterwards.
C8_ProductDeprecatedNotRemoved ==
    DeleteProduct =>
        /\ Len(last.calls) = 1
        /\ last.calls[1].api = "update_experience_developer_product"
        /\ LET a == last.calls[1].args IN
           /\ a[1] = last.inputs.map.experienceId.u64
           /\ a[2] = last.outputs.map.assetId.u64
           /\ a[3][1] = "zzz_DEPRECATED("
           /\ Contains(a[3], <<last.utc.date, " ", last.utc.time,
                               last.utc.frac>>)
           /\ a[4] = last.inputs.map.price.u64
           /\ Contains(a[5], last.inputs.map.name.str)
           /\ Contains(a[5], last.inputs.map.description.str)
           /\ a[6] = IconOf(last.inputs)
        /\ DOMAIN platform.products = DOMAIN last.before.products

C8_Witness ==
    /\ DeleteProduct
    /\ last.result.kind = "ok"
    /\ last.inputs.map.description.str = <<"Gold", " coin">>
    /\ platform.products[6].name[1] = "zzz_DEPRECATED("

----------------------------------------------------------------------------
(* C9 *)

CreatePlace ==
    /\ last.op = "create" /\ last.resource_type = PLACE
    /\ ParsePlaceInputs(last.inputs).ok

NoAssetId(d) == "assetId" \notin DOMAIN d.map \/ Is(d.map.assetId, "null")

CreatedPlaces == DOMAIN platform.places \ DOMAIN last.before.places

\* C9: create of a place with is_start = false and asset_id = None invokes
\* create-place exactly once and the output asset id is the place id the
\* platform returned; with is_start = true and asset_id = None there is no
\* platform call and the output asset id is start_place_id of the inputs.
C9_PlaceCreatedOrStartPlace ==
    CreatePlace /\ NoAssetId(last.inputs) =>
        IF last.inputs.map.isStart.bool
        THEN /\ last.calls = <<>>
             /\ platform = last.before
             /\ last.result =
                    OkSome(Map([assetId |-> last.inputs.map.startPlaceId]))
        ELSE /\ Len(last.calls) = 1
             /\ last.calls[1].api = "create_place"
             /\ last.calls[1].args = <<last.inputs.map.experienceId.u64>>
             /\ last.result.kind = "ok" =>
                   \E q \in CreatedPlaces :
                       /\ CreatedPlaces = {q}
                       /\ last.result.out = Some(Map([assetId |-> U(q)]))

C9_Witness ==
    /\ CreatePlace /\ NoAssetId(last.inputs)
    /\ ~last.inputs.map.isStart.bool
    /\ last.result.kind = "ok"
    /\ CreatedPlaces # {}

----------------------------------------------------------------------------
(* C10 *)

\* C10: create of a place with is_start = true returns an output asset id
\* equal to start_place_id of the inputs, whatever asset_id the inputs carry.
C10_StartPlaceIdAlways ==
    CreatePlace /\ last.inputs.map.isStart.bool =>
        last.result = OkSome(Map([assetId |-> last.inputs.map.startPlaceId]))

----------------------------------------------------------------------------
(* C11 *)

CreateProduct ==
    /\ last.op = "create"
    /\ last.resource_type = EXPERIENCE_DEVELOPER_PRODUCT
    /\ ParseExperienceDeveloperProductInputs(last.inputs).ok

\* the create-product call succeeded and the re-fetch by creation id failed
RefetchFailed ==
    /\ CreateProduct
    /\ Len(last.calls) = 2
    /\ last.calls[1].api = "create_experience_developer_product"
    /\ last.calls[1].ok
    /\ last.calls[2].api = "find_experience_developer_product_by_id"
    /\ ~last.calls[2].ok

CreatedProducts == DOMAIN platform.products \ DOMAIN last.before.products

\* C11: create of a developer product is not transactional: when the
\* create-product call succeeds and the re-fetch by creation id fails, the
\* product that was created stays on the platform, with the fields of the
\* inputs, and create returns an error.
C11_ProductPersistsOnFailedRefetch ==
    RefetchFailed =>
        /\ last.result.kind = "err"
        /\ \E q \in CreatedProducts :
              /\ CreatedProducts = {q}
              /\ platform.products[q].name = last.inputs.map.name.str
              /\ platform.products[q].price = last.inputs.map.price.u64
              /\ platform.products[q].experienceId =
                     last.inputs.map.experienceId.u64

C11_Witness ==
    /\ RefetchFailed
    /\ last.result = Err(PlatformError)
    /\ CreatedProducts # {}

----------------------------------------------------------------------------
(* C12 *)

UnknownOp ==
    /\ last.op \in {"create", "update", "delete"}
    /\ last.resource_type \notin DeclaredTypes

\* C12: for a resource-type string outside the declared set, each of
\* create, update and delete ends in the fatal defect outcome, neither a
\* returned error nor success, and makes no platform call before it.
C12_UnknownTypeIsFatal ==
    UnknownOp =>
        /\ last.result.kind = "panic"
        /\ last.calls = <<>>
        /\ platform = last.before

C12_Witness ==
    /\ UnknownOp
    /\ last.op = "delete"
    /\ last.resource_type = "Experience"
    /\ last.result.kind = "panic"
    /\ nops = 2

----------------------------------------------------------------------------
(* C13 *)

\* the inputs document parses into the input shape of the type
InputsShape(resource_type, d) ==
    CASE resource_type = EXPERIENCE -> ParseExperienceInputs(d).ok
      [] resource_type = EXPERIENCE_CONFIGURATION ->
            ParseExperienceConfigurationInputs(d).ok
      [] resource_type = EXPERIENCE_ACTIVATION ->
            ParseExperienceActivationInputs(d).ok
      [] resource_type = EXPERIENCE_ICON -> ParseExperienceIconInputs(d).ok
      [] resource_type = EXPERIENCE_THUMBNAIL ->
            ParseExperienceThumbnailInputs(d).ok
      [] resource_type = EXPERIENCE_THUMBNAIL_ORDER ->
            ParseExperienceThumbnailOrderInputs(d).ok
      [] resource_type = EXPERIENCE_DEVELOPER_PRODUCT_ICON ->
            ParseExperienceDeveloperProductIconInputs(d).ok
      [] resource_type = EXPERIENCE_DEVELOPER_PRODUCT ->
            ParseExperienceDeveloperProductInputs(d).ok
      [] resource_type = PLACE -> ParsePlaceInputs(d).ok
      [] resource_type = PLACE_FILE -> ParsePlaceFileInputs(d).ok
      [] resource_type = PLACE_CONFIGURATION ->
            ParsePlaceConfigurationInputs(d).ok

\* the outputs document parses into the output shape of the type, for the
\* types of which an operation reads the outputs
OutputsShape(resource_type, d) ==
    CASE resource_type = EXPERIENCE -> ParseExperienceOutputs(d).ok
      [] resource_type = EXPERIENCE_THUMBNAIL ->
            ParseExperienceThumbnailOutputs(d).ok
      [] resource_type = EXPERIENCE_DEVELOPER_PRODUCT ->
            ParseExperienceDeveloperProductOutputs(d).ok
      [] resource_type = PLACE -> ParsePlaceOutputs(d).ok

\* the operation deserializes the inputs document of the type
ReadsInputs(op, resource_type) ==
    \/ op \in {"create", "update"} /\ resource_type \in DeclaredTypes
    \/ op = "delete" /\ resource_type \in
           {EXPERIENCE_THUMBNAIL, EXPERIENCE_DEVELOPER_PRODUCT, PLACE}

\* the operation deserializes the outputs document of the type
ReadsOutputs(op, resource_type) ==
    \/ op = "update" /\ resource_type \in
           {EXPERIENCE_THUMBNAIL, EXPERIENCE_DEVELOPER_PRODUCT}
    \/ op = "delete" /\ resource_type \in
           {EXPERIENCE, EXPERIENCE_THUMBNAIL, EXPERIENCE_DEVELOPER_PRODUCT,
            PLACE}

InputsRejected ==
    /\ ReadsInputs(last.op, last.resource_type)
    /\ ~InputsShape(last.resource_type, last.inputs)

OutputsRejected ==
    /\ ReadsOutputs(last.op, last.resource_type)
    /\ ~OutputsShape(last.resource_type, last.outputs)

\* C13: for every declared type, an operation given an inputs or outputs
\* document that does not parse into the shape it requires for the type
\* returns a descriptive error, never the fatal defect, and has made no
\* platform call: the platform is unchanged.
C13_MalformedDocumentIsReported ==
    InputsRejected \/ OutputsRejected =>
        /\ last.result =
              IF InputsRejected THEN Err(DeserializeInputs)
              ELSE Err(DeserializeOutputs)
        /\ last.calls = <<>>
        /\ platform = last.before

C13_Witness ==
    /\ last.op = "update"
    /\ last.resource_type = EXPERIENCE_THUMBNAIL
    /\ ~InputsRejected /\ OutputsRejected
    /\ last.outputs = WrongTypes
    /\ last.result = Err(DeserializeOutputs)

----------------------------------------------------------------------------
(* C14 *)

DeleteExperience ==
    /\ last.op = "delete" /\ last.resource_type = EXPERIENCE
    /\ ParseExperienceOutputs(last.outputs).ok

\* the platform pf with experience e archived and nothing else changed
Archived(pf, e) ==
    [pf EXCEPT !.experiences[e].configuration =
                   Put(@, "isArchived", B(TRUE))]

\* C14: delete of an experience issues exactly one configure-experience
\* call, on the asset id of the outputs, with the archived flag set to true
\* and every other configuration field unset, and no other platform call;
\* the experience identifier stays valid on the platform and its other
\* configuration fields are unchanged.
C14_ExperienceArchivedOnly ==
    DeleteExperience =>
        LET X == last.outputs.map.assetId.u64 IN
        /\ Len(last.calls) = 1
        /\ last.calls[1].api = "configure_experience"
        /\ last.calls[1].args[1] = X
        /\ \A f \in ExperienceConfigurationFields :
              last.calls[1].args[2][f] =
                  IF f = "isArchived" THEN Some(B(TRUE)) ELSE None
        /\ DOMAIN platform.experiences = DOMAIN last.before.experiences
        /\ platform =
              IF last.result.kind = "ok" THEN Archived(last.before, X)
              ELSE last.before

\* an experience that was configured is archived and keeps what was set
C14_Witness ==
    /\ DeleteExperience
    /\ last.result.kind = "ok"
    /\ last.outputs.map.assetId.u64 = 1
    /\ last.before.experiences[1].configuration.isArchived = B(FALSE)
    /\ "genre" \in DOMAIN last.before.experiences[1].configuration
    /\ platform.experiences[1].configuration.isArchived = B(TRUE)
    /\ platform.experiences[1].configuration.genre = S(<<"All">>)
    /\ platform.experiences[1].configuration.isForSale = B(TRUE)

----------------------------------------------------------------------------
(* C15 *)

SuccessfulUpdate ==
    /\ last.op = "update" /\ last.resource_type \in DeclaredTypes
    /\ last.result.kind = "ok"

\* the types whose create, and so whose update, ends in Ok(None)
NoOutputTypes ==
    { EXPERIENCE_CONFIGURATION, EXPERIENCE_ACTIVATION,
      EXPERIENCE_THUMBNAIL_ORDER, PLACE_CONFIGURATION }

\* C15 as stated: for every declared type a successful update returns an
\* outputs document, newly produced or the prior one passed through; no
\* declared type's successful update returns nothing.
C15_UpdateAlwaysReturnsOutputs ==
    SuccessfulUpdate => IsSome(last.result.out)

\* C15 amended: a successful update returns an outputs document for every
\* declared type except experience-configuration, experience-activation,
\* experience-thumbnail-order and place-configuration, for which it returns
\* nothing; for experience-developer-product the document is the prior
\* outputs passed through.
C15_UpdateOutputsByType ==
    SuccessfulUpdate =>
        /\ IsSome(last.result.out) <=> last.resource_type \notin NoOutputTypes
        /\ last.resource_type = EXPERIENCE_DEVELOPER_PRODUCT =>
              last.result.out = Some(last.outputs)

C15_Witness ==
    /\ SuccessfulUpdate
    /\ last.resource_type = EXPERIENCE_ACTIVATION
    /\ last.result = OkNone
    /\ platform.experiences[1].isActive
    /\ ~last.before.experiences[1].isActive

----------------------------------------------------------------------------
(* C16 *)

UpdateThumbnail ==
    last.op = "update" /\ last.resource_type = EXPERIENCE_THUMBNAIL

ThumbnailDocsParse ==
    /\ ParseExperienceThumbnailInputs(last.inputs).ok
    /\ ParseExperienceThumbnailOutputs(last.outputs).ok

ImageIds(pf) == {i.id : i \in pf.images}

\* C16: update of a thumbnail first calls delete-thumbnail with the image id
\* recorded in the prior outputs, and only after that call succeeded calls
\* upload-thumbnail with the new inputs; when the delete step fails, on a
\* document that does not parse or on the platform, no upload is attempted;
\* on success the outputs carry the image id the platform newly assigned,
\* which is none of the ids the platform held before.
C16_ThumbnailDeleteThenUpload ==
    UpdateThumbnail =>
        /\ ~ThumbnailDocsParse => last.calls = <<>>
        /\ ThumbnailDocsParse =>
              /\ Len(last.calls) \in {1, 2}
              /\ last.calls[1].api = "delete_experience_thumbnail"
              /\ last.calls[1].args =
                     << last.inputs.map.experienceId.u64,
                        last.outputs.map.assetId.u64 >>
              /\ Len(last.calls) = 2 <=> last.calls[1].ok
        /\ CallsTo("upload_thumbnail") = {k \in {2} : Len(last.calls) = 2}
        /\ Len(last.calls) = 2 =>
              last.calls[2].args =
                  << last.inputs.map.experienceId.u64,
                     Join(project_path, last.inputs.map.filePath.str) >>
        /\ last.result.kind = "ok" =>
              /\ Len(last.calls) = 2
              /\ \E q \in ImageIds(platform) \ ImageIds(last.before) :
                    last.result.out = Some(Map([assetId |-> U(q)]))

C16_Witness ==
    /\ UpdateThumbnail
    /\ last.result = OkSome(Map([assetId |-> U(7)]))
    /\ last.outputs = Map([assetId |-> U(3)])
    /\ 3 \in ImageIds(last.before)
    /\ ImageIds(platform) = {7}

----------------------------------------------------------------------------
(* C17 *)

\* update or delete of a developer product given documents that parse
AddressesProduct ==
    /\ last.op \in {"update", "delete"}
    /\ last.resource_type = EXPERIENCE_DEVELOPER_PRODUCT
    /\ ProductDocsParse

\* C17: a successful create of a developer product records as asset id the
\* identifier the re-fetch resolved (the one under which the platform
\* updates the product), as product id the identifier the create-product
\* call returned, and as shop id the one that call returned; update and
\* delete pass the asset id of the outputs to update-product, not their
\* product id.
C17_ProductAddressedByRefetchedId ==
    /\ CreateProduct /\ last.result.kind = "ok" =>
          \E q \in CreatedProducts :
              /\ CreatedProducts = {q}
              /\ platform.products[q].developerProductId # q
              /\ last.calls[2].args[2] =
                     platform.products[q].developerProductId
              /\ last.result.out =
                     Some(Map([assetId |-> U(q),
                               productId |->
                                   U(platform.products[q].developerProductId),
                               shopId |-> U(platform.products[q].shopId)]))
    /\ AddressesProduct =>
          /\ CallsTo("update_experience_developer_product") = {1}
          /\ last.calls[1].args[2] = last.outputs.map.assetId.u64
          /\ last.outputs.map.productId.u64 # last.outputs.map.assetId.u64
                 => last.calls[1].args[2] # last.outputs.map.productId.u64

\* a product created in the previous step (creation id 7, shop id 8,
\* re-fetched id 9) is updated under the re-fetched id
C17_Witness ==
    /\ AddressesProduct /\ last.op = "update"
    /\ last.outputs =
           Map([assetId |-> U(9), productId |-> U(7), shopId |-> U(8)])
    /\ last.before.products[9].developerProductId = 7
    /\ last.before.products[9].shopId = 8
    /\ last.calls[1].args[2] = 9
    /\ last.result.kind = "ok"
    /\ platform.products[9].name = last.inputs.map.name.str
    /\ platform.products[9].name # last.before.products[9].name

----------------------------------------------------------------------------
(* C18 *)

UpdateAsCreate ==
    last.op = "update" /\ last.resource_type \in RecreateTypes

\* the outcomes the platform calls of the last operation had
OksOf(calls) ==
    [k \in {1, 2} |-> IF k <= Len(calls) THEN calls[k].ok ELSE TRUE]

\* create applied to the inputs of the last operation, from the platform
\* state it started in and with the call outcomes it met
SameCreate ==
    create(last.before, OksOf(last.calls), last.resource_type, last.inputs)

\* C18: for experience, experience-configuration, experience-activation,
\* experience-icon, experience-thumbnail-order, place, place-file,
\* place-configuration and experience-developer-product-icon, update makes
\* the platform calls and returns the result that create makes and returns
\* for the same inputs from the same platform state, whatever the prior
\* outputs document is; the prior outputs are not read.
C18_UpdateIsCreate ==
    UpdateAsCreate =>
        /\ last.calls = SameCreate.calls
        /\ last.result = SameCreate.result
        /\ platform = SameCreate.pf

\* a place is re-created by update although the prior outputs do not parse
C18_Witness ==
    /\ UpdateAsCreate
    /\ last.resource_type = PLACE
    /\ last.outputs = WrongTypes
    /\ last.result.kind = "ok"
    /\ CallsTo("create_place") = {1}
    /\ CreatedPlaces # {}

----------------------------------------------------------------------------
(* C19 *)

CreatePlaceFile ==
    /\ last.op = "create" /\ last.resource_type = PLACE_FILE
    /\ ParsePlaceFileInputs(last.inputs).ok

\* C19: create of a place file calls upload-place on the asset id of the
\* inputs and, only after that call succeeded, get-place on the same asset
\* id; the output version is the saved-version counter the platform holds
\* after the upload; when the upload fails there is no get-place call and
\* no outputs are returned.
C19_PlaceFileUploadThenGet ==
    CreatePlaceFile =>
        LET asset_id == last.inputs.map.assetId.u64 IN
        /\ Len(last.calls) \in {1, 2}
        /\ last.calls[1].api = "upload_place"
        /\ last.calls[1].args =
               << Join(project_path, last.inputs.map.filePath.str), asset_id >>
        /\ Len(last.calls) = 2 <=> last.calls[1].ok
        /\ CallsTo("get_place") = {k \in {2} : Len(last.calls) = 2}
        /\ Len(last.calls) = 2 => last.calls[2].args = <<asset_id>>
        /\ ~last.calls[1].ok =>
              /\ last.result = Err(PlatformError)
              /\ platform = last.before
        /\ last.result.kind = "ok" =>
              /\ AllCallsOk(last.calls)
              /\ last.result.out =
                     Some(Map([version |->
                         U(platform.places[asset_id].currentSavedVersion)]))
              /\ platform.places[asset_id].currentSavedVersion =
                     last.before.places[asset_id].currentSavedVersion + 1

\* the second upload to the start place reports version 2
C19_Witness ==
    /\ CreatePlaceFile
    /\ last.result = OkSome(Map([version |-> U(2)]))
    /\ last.before.places[2].currentSavedVersion = 1
    /\ platform.places[2].file = <<"/", "project", "start.rbxl">>

----------------------------------------------------------------------------
(* C20 *)

\* create of a developer product with the inputs of an earlier create that
\* left a product behind
Redrive ==
    /\ CreateProduct
    /\ \E o \in orphans :
          o.inputs = last.inputs /\ o.id \in DOMAIN last.before.products

\* the document names the product q as its asset id
Carries(out, q) ==
    /\ IsSome(out) /\ IsMap(out.some)
    /\ Req(out.some, "assetId", "u64")
    /\ out.some.map.assetId.u64 = q

\* C20: a create of a developer product that fails at the re-fetch returns
\* no outputs document, so the id of the product it created is not handed
\* to the caller; re-driving create with the same inputs issues a second
\* create-product call and, when that call succeeds, leaves two products on
\* the platform; no later operation returns the id of the first product or
\* touches it.
C20_FailedRefetchOrphansProduct ==
    /\ RefetchFailed =>
          /\ last.result.out = None
          /\ \E q \in CreatedProducts :
                /\ CreatedProducts = {q}
                /\ [id |-> q, inputs |-> last.inputs] \in orphans
    /\ Redrive =>
          /\ Len(last.calls) >= 1
          /\ last.calls[1].api = "create_experience_developer_product"
          /\ last.calls[1].ok =>
                \E q \in CreatedProducts :
                    /\ CreatedProducts = {q}
                    /\ \A o \in orphans :
                          o.id \in DOMAIN last.before.products => o.id # q
                    /\ last.result.kind = "ok" => Carries(last.result.out, q)
    /\ \A o \in orphans :
          /\ o.id \in DOMAIN platform.products
          /\ platform.products[o.id].name = o.inputs.map.name.str
          /\ platform.products[o.id].description =
                 o.inputs.map.description.str
          /\ last.resource_type = EXPERIENCE_DEVELOPER_PRODUCT =>
                ~Carries(last.result.out, o.id)

\* the product 9 of the failed create and the product 12 of the re-driven
\* create are both on the platform, under the same name
C20_Witness ==
    /\ Redrive
    /\ last.result.kind = "ok"
    /\ orphans = {[id |-> 9, inputs |-> last.inputs]}
    /\ Carries(last.result.out, 12)
    /\ DOMAIN platform.products = {6, 9, 12}
    /\ platform.products[9].name = platform.products[12].name

----------------------------------------------------------------------------
(* C21 *)

\* the declared types whose delete arm is Ok(()) alone
NothingToDelete ==
    { EXPERIENCE_CONFIGURATION, EXPERIENCE_ICON, EXPERIENCE_THUMBNAIL_ORDER,
      EXPERIENCE_DEVELOPER_PRODUCT_ICON, PLACE_FILE, PLACE_CONFIGURATION }

DeleteNothing ==
    /\ last.op = "delete"
    /\ last.resource_type \in NothingToDelete

\* C21: delete of an experience configuration, experience icon, thumbnail
\* order, developer-product icon, place file or place configuration returns
\* success and makes no platform call, whatever the inputs and outputs
\* documents are, documents of no shape included; the platform is left as
\* it was.
C21_DeleteIsNoOp ==
    DeleteNothing =>
        /\ last.result = OkNone
        /\ last.calls = <<>>
        /\ platform = last.before

\* a place file deleted with documents that parse into no shape, after an
\* operation that changed the platform
C21_Witness ==
    /\ DeleteNothing
    /\ last.resource_type = PLACE_FILE
    /\ last.inputs = WrongTypes
    /\ last.outputs = WrongTypes
    /\ ~InputsShape(last.resource_type, last.inputs)
    /\ last.result = OkNone
    /\ nops = 2
    /\ platform # DeployedPlatform

====
